---- MODULE Spec2Model ----
(***************************************************************************)
(* Conda environment resolution and provisioning of `kedro install`        *)
(* (kedro/framework/cli/project.py): _run_conda_cmd, _ask, _conda_install. *)
(*                                                                         *)
(* Python values are records [kind, abs, segs]:                            *)
(*   kind "None"  the value None                                           *)
(*   kind "bool"  True / False (segs = <<"True">> / <<"False">>)           *)
(*   kind "str"   a string; a path string is its "/"-separated segments,   *)
(*                abs tells whether it starts with "/"; a plain word is a  *)
(*                relative string of one segment; '' has no segment        *)
(*   kind "Path"  a pathlib.Path with the same segments                    *)
(* so that == between a str and a Path is decided by the kinds, as Python  *)
(* decides it.                                                             *)
(***************************************************************************)
EXTENDS Integers, Sequences, FiniteSets

VARIABLES
    files,        \* source directory: conda_yml position -> file content
    registry,     \* environments installed in conda (paths, in listing order)
    pc,           \* position of the running `kedro install`
    runs,         \* number of `kedro install` runs started
    i,            \* position in conda_yml of the file being looked at
    conda_cfg,    \* local conda_cfg (line 136)
    cfg_name,     \* local cfg_name (line 140)
    cfg_prefix,   \* local cfg_prefix (line 140)
    name,         \* local name (lines 141, 167)
    prefix,       \* local prefix (lines 142, 167)
    envs,         \* local json['envs'] (line 144)
    update,       \* local update (lines 150-162)
    prompts,      \* number of input() calls made in this run
    script,       \* what the operator has ready on stdin for this run
    cmds,         \* conda subprocesses started in this run, in order
    err,          \* what ended the run, "" while it has not failed
    filesAtStart, \* files when this run started
    prev,         \* how the previous run ended
    reqs_in,      \* requirements.in: "absent", "own" text, or a "copy" of requirements.txt
    reqsAtStart,  \* reqs_in when this run started
    compile_flag, \* option --build-reqs/--no-build-reqs, "unset" until line 265 reads it
    pips,         \* steps of lines 265-277 taken in this run, in order
    ask_pc,       \* _ask alone: position
    ask_choices,  \* _ask alone: parameter choices
    ask_indexes,  \* _ask alone: parameter ask_indexes
    ask_choice,   \* _ask alone: local choice (the last response read)
    ask_reads,    \* _ask alone: number of input() calls made
    ask_ret       \* _ask alone: the returned pair, or the exception raised

vars == <<files, registry, pc, runs, i, conda_cfg, cfg_name, cfg_prefix, name,
          prefix, envs, update, prompts, script, cmds, err, filesAtStart, prev,
          reqs_in, reqsAtStart, compile_flag, pips,
          ask_pc, ask_choices, ask_indexes, ask_choice, ask_reads, ask_ret>>

installVars == <<files, registry, pc, runs, i, conda_cfg, cfg_name, cfg_prefix,
                 name, prefix, envs, update, prompts, script, cmds, err,
                 filesAtStart, prev, reqs_in, reqsAtStart, compile_flag, pips>>

condaVars == <<files, registry, runs, i, conda_cfg, cfg_name, cfg_prefix, name,
               prefix, envs, update, prompts, cmds, filesAtStart, prev>>

pipVars == <<reqs_in, reqsAtStart, compile_flag, pips>>

askVars == <<ask_pc, ask_choices, ask_indexes, ask_choice, ask_reads, ask_ret>>

----------------------------------------------------------------------------
(* Bounds *)

MaxEnvs == 2      \* environments installed before the first run
MaxRuns == 2      \* runs of `kedro install` in a row
MaxInputs == 2    \* responses the operator has ready for one run
MaxReads == 3     \* responses read by one call of _ask checked alone

----------------------------------------------------------------------------
(* Python values *)

PyNone == [kind |-> "None", abs |-> FALSE, segs |-> <<>>]
PyTrue == [kind |-> "bool", abs |-> FALSE, segs |-> <<"True">>]
PyFalse == [kind |-> "bool", abs |-> FALSE, segs |-> <<"False">>]
PyStr(w) == [kind |-> "str", abs |-> FALSE, segs |-> <<w>>]
PyEmptyStr == [kind |-> "str", abs |-> FALSE, segs |-> <<>>]
PyPathStr(s) == [kind |-> "str", abs |-> TRUE, segs |-> s]

\* bool(v)
Truthy(v) ==
    CASE v.kind = "None" -> FALSE
      [] v.kind = "bool" -> v = PyTrue
      [] v.kind = "str" -> v.abs \/ v.segs # <<>>
      [] OTHER -> TRUE

\* Path(str(v)): a str keeps its text, only the type changes
PathOf(v) == [kind |-> "Path", abs |-> v.abs, segs |-> v.segs]

\* p / n for a Path p and a str n
PathJoin(p, n) ==
    IF n.abs THEN PathOf(n)
    ELSE [kind |-> "Path", abs |-> p.abs, segs |-> p.segs \o n.segs]

\* os.path.split(p): <<head, tail>>, both str, for a str or a Path
OsPathSplit(p) ==
    IF p.segs = <<>>
    THEN << [kind |-> "str", abs |-> p.abs, segs |-> <<>>], PyEmptyStr >>
    ELSE << [kind |-> "str", abs |-> p.abs,
             segs |-> SubSeq(p.segs, 1, Len(p.segs) - 1)],
            PyStr(p.segs[Len(p.segs)]) >>

\* x in seq
PyIn(x, seq) == \E k \in 1..Len(seq) : seq[k] = x

\* seq.index(x), for x in seq
PyIndex(x, seq) == CHOOSE k \in 1..Len(seq) :
                      seq[k] = x /\ \A j \in 1..(k - 1) : seq[j] # x

----------------------------------------------------------------------------
(* _ask (lines 114-126) *)

\* the default choices ['N', 'Y'] (line 114)
YN == << PyStr("N"), PyStr("Y") >>

\* Responses are one-word strings. "sup2" stands for the one-character
\* response U+00B2 (superscript two), a digit that is not a decimal.
DecimalWords == {"0", "1", "2", "7"}
DigitWords == DecimalWords \cup {"sup2"}

\* choice.isdigit()
IsDigit(choice) ==
    choice.kind = "str" /\ ~choice.abs /\ Len(choice.segs) = 1
        /\ choice.segs[1] \in DigitWords

\* int(choice) for a choice with choice.isdigit(): -1 stands for ValueError
IntOf(choice) ==
    CASE choice.segs[1] = "0" -> 0
      [] choice.segs[1] = "1" -> 1
      [] choice.segs[1] = "2" -> 2
      [] choice.segs[1] = "7" -> 7
      [] OTHER -> -1

\* What lines 119-126 do with the response just read: read again, return the
\* pair (index, choice) (index counted from 0), or raise.
AskCheck(choice, choices, indexes) ==
    IF indexes
    THEN IF ~IsDigit(choice)
         THEN [status |-> "again", index |-> 0, choice |-> PyNone]
         ELSE IF IntOf(choice) < 0
              THEN [status |-> "ValueError", index |-> 0, choice |-> PyNone]
              ELSE IF IntOf(choice) >= Len(choices)
                   THEN [status |-> "again", index |-> 0, choice |-> PyNone]
                   ELSE [status |-> "return", index |-> IntOf(choice),
                         choice |-> choices[IntOf(choice) + 1]]
    ELSE IF ~PyIn(choice, choices)
         THEN [status |-> "again", index |-> 0, choice |-> PyNone]
         ELSE [status |-> "return", index |-> PyIndex(choice, choices) - 1,
               choice |-> choice]

\* A whole call of _ask with the responses of `stdin` ready to be read:
\* how it ends, what it returns, how many input() calls it made and what is
\* left unread. input() on an exhausted stdin raises EOFError.
RECURSIVE AskRun(_, _, _, _)
AskRun(stdin, choices, indexes, reads) ==
    IF stdin = <<>>
    THEN [status |-> "EOFError", index |-> 0, choice |-> PyNone,
          reads |-> reads + 1, rest |-> <<>>]
    ELSE LET r == AskCheck(Head(stdin), choices, indexes)
         IN  IF r.status = "again"
             THEN AskRun(Tail(stdin), choices, indexes, reads + 1)
             ELSE [status |-> r.status, index |-> r.index, choice |-> r.choice,
                   reads |-> reads + 1, rest |-> Tail(stdin)]

----------------------------------------------------------------------------
(* The project: spec files, defaults, installed environments *)

\* The module reads PROJ_NAME and DEFAULT_CONDA_PREFIX (lines 141, 142) as
\* globals it does not bind itself: the project name and the directory new
\* environments are installed under.
PROJ_NAME == PyStr("proj")
DEFAULT_CONDA_PREFIX == PyPathStr(<<"d">>)

\* len(conda_yml) for the default ['environment.yml', 'environment.yaml']
NFiles == 2

\* A parsed spec file is a function from its keys to their values.
Keys == {"name", "prefix", "dependencies"}
EmptyDoc == [k \in {} |-> PyNone]

\* conda_cfg.get(k)
DocGet(cfg, k) == IF k \in DOMAIN cfg THEN cfg[k] ELSE PyNone

\* conda_cfg[k] = v
DocSet(cfg, k, v) ==
    [x \in (DOMAIN cfg) \cup {k} |-> IF x = k THEN v ELSE cfg[x]]

\* the mapping with the keys whose value is given (PyNone: key not written)
MkDoc(n, p, d) ==
    LET val(k) == CASE k = "name" -> n [] k = "prefix" -> p [] OTHER -> d
    IN  [k \in {x \in Keys : val(x) # PyNone} |-> val(k)]

Absent == [kind |-> "absent", doc |-> EmptyDoc]
Malformed == [kind |-> "malformed", doc |-> EmptyDoc]
ListDoc == [kind |-> "list", doc |-> EmptyDoc]
Doc(d) == [kind |-> "doc", doc |-> d]

NameChoices == {PyNone, PyStr("a")}
PrefixChoices == {PyNone, PyPathStr(<<"r1">>), PyPathStr(<<"r1", "a">>)}
DepChoices == {PyNone, PyStr("numpy")}

FirstFileChoices ==
    {Absent, Malformed, ListDoc}
        \cup {Doc(MkDoc(n, p, d)) : n \in NameChoices, p \in PrefixChoices,
                                    d \in DepChoices}
SecondFileChoices == {Absent, Doc(MkDoc(PyStr("b"), PyNone, PyStr("numpy")))}

InstalledChoices ==
    {PyPathStr(<<"r1", "a">>), PyPathStr(<<"r2", "a">>), PyPathStr(<<"r2", "b">>)}

RegistryChoices ==
    {s \in UNION {[1..n -> InstalledChoices] : n \in 0..MaxEnvs} :
        \A j, k \in 1..Len(s) : j # k => s[j] # s[k]}

\* one-word responses an operator may type
ResponseWords == {"N", "Y", "1"}
\* what the operator has typed ahead for one run: nothing, an answer, an
\* answer and an index, a word that is no answer and then an answer
Scripts ==
    {s \in UNION {[1..n -> {PyStr(w) : w \in ResponseWords}] : n \in 0..MaxInputs} :
        \/ Len(s) <= 1 /\ s # <<PyStr("1")>>
        \/ s = <<PyStr("Y"), PyStr("1")>>
        \/ s = <<PyStr("1"), PyStr("N")>>}

NoPrev == [ok |-> FALSE, action |-> "none", name |-> PyNone, prefix |-> PyNone]

----------------------------------------------------------------------------
(* _run_conda_cmd (lines 102-105) *)

\* What subprocess.run hands back: its return code and what proc.stdout is:
\* None (output not captured: line 104 asks for no capture itself and line
\* 144 passes no run_kwargs, so this is what an unpatched subprocess.run
\* gives), text that is not JSON, a JSON object with the key envs, or a JSON
\* object without it.
ListOutcomes == [returncode : {0, 1}, stdout : {"None", "text", "envs", "other"}]

\* json.loads(proc.stdout) is evaluated before anything looks at returncode
RunCondaCmd(out) ==
    CASE out.stdout = "None" -> [status |-> "TypeError", returncode |-> out.returncode]
      [] out.stdout = "text" -> [status |-> "JSONDecodeError", returncode |-> out.returncode]
      [] OTHER -> [status |-> "ok", returncode |-> out.returncode]

----------------------------------------------------------------------------
(* _conda_install: the resolution of lines 140-167 *)

\* line 141 without its default: name = cfg_name
DefaultedNameUnset(n) == n

\* line 141
DefaultedName(n) == IF Truthy(n) THEN n ELSE PROJ_NAME

\* line 142 preferring the default to the prefix of the file
DefaultedPrefixIgnoringFile(p) == DEFAULT_CONDA_PREFIX

\* line 142
DefaultedPrefix(p) == IF Truthy(p) THEN p ELSE DEFAULT_CONDA_PREFIX

\* line 151: [Path(env) for env in json['envs'] if os.path.split(env)[1] == cfg_name]
RECURSIVE matching_envs(_, _)
matching_envs(listed, n) ==
    IF listed = <<>> THEN <<>>
    ELSE (IF OsPathSplit(Head(listed))[2] = n THEN <<PathOf(Head(listed))>> ELSE <<>>)
            \o matching_envs(Tail(listed), n)

\* line 152: the operands of `in` are a Path and the list of str json['envs']
ExactMatchFound(n, p, listed) ==
    \/ Truthy(p) /\ Truthy(n) /\ PyIn(PathJoin(PathOf(p), n), listed)
    \/ ~Truthy(n) /\ Truthy(p) /\ PyIn(PathOf(p), listed)

\* line 155 testing the prefix of the file instead of the file:
\* any(matching_envs) and not cfg_prefix
NameBranchTakenNoPrefix(matching, cfg) ==
    Len(matching) > 0 /\ ~Truthy(DocGet(cfg, "prefix"))

\* line 155 without its second test: any(matching_envs)
NameBranchTakenAnyMatch(matching, cfg) == Len(matching) > 0

\* line 155: any(matching_envs) and not conda_cfg
NameBranchTaken(matching, cfg) == Len(matching) > 0 /\ ~(DOMAIN cfg # {})

\* lines 156-167, with the responses of `stdin` ready to be read
AskToReuse(matching, n, p, stdin) ==
    LET first == AskRun(stdin, YN, FALSE, 0)
        pick == IF Len(matching) > 1 /\ first.status = "return" /\ Truthy(first.choice)
                THEN AskRun(first.rest, matching, TRUE, 0)
                ELSE [status |-> "return", index |-> 0, choice |-> matching[1],
                      reads |-> 0, rest |-> first.rest]
        reuse == first.choice
    IN  IF first.status # "return"
        THEN [status |-> first.status, update |-> PyFalse, name |-> n,
              prefix |-> p, prompts |-> first.reads]
        ELSE IF pick.status # "return"
        THEN [status |-> pick.status, update |-> reuse, name |-> n,
              prefix |-> p, prompts |-> first.reads + pick.reads]
        ELSE [status |-> "ok", update |-> reuse,
              name |-> IF Truthy(reuse) THEN OsPathSplit(pick.choice)[2] ELSE n,
              prefix |-> IF Truthy(reuse) THEN OsPathSplit(pick.choice)[1] ELSE p,
              prompts |-> first.reads + pick.reads]

\* lines 150-167
Resolution(cfg, n, p, nm, pf, listed, stdin) ==
    IF ExactMatchFound(n, p, listed)
    THEN [status |-> "ok", update |-> PyTrue, name |-> nm, prefix |-> pf,
          prompts |-> 0]
    ELSE IF NameBranchTaken(matching_envs(listed, n), cfg)
    THEN AskToReuse(matching_envs(listed, n), nm, pf, stdin)
    ELSE [status |-> "ok", update |-> PyFalse, name |-> nm, prefix |-> pf,
          prompts |-> 0]

----------------------------------------------------------------------------
(* State machine: runs of `kedro install` *)

Init ==
    /\ files \in {<<f, g>> : f \in FirstFileChoices, g \in SecondFileChoices}
    /\ registry \in RegistryChoices
    /\ pc = "idle"
    /\ runs = 0
    /\ i = 1
    /\ conda_cfg = EmptyDoc
    /\ cfg_name = PyNone
    /\ cfg_prefix = PyNone
    /\ name = PyNone
    /\ prefix = PyNone
    /\ envs = <<>>
    /\ update = PyFalse
    /\ prompts = 0
    /\ script = <<>>
    /\ cmds = <<>>
    /\ err = ""
    /\ filesAtStart = files
    /\ prev = NoPrev
    /\ reqs_in \in {"absent", "own"}
    /\ reqsAtStart = reqs_in
    /\ compile_flag = "unset"
    /\ pips = <<>>
    /\ ask_pc = "off"
    /\ ask_choices = <<>>
    /\ ask_indexes = FALSE
    /\ ask_choice = PyNone
    /\ ask_reads = 0
    /\ ask_ret = [status |-> "none", index |-> 0, choice |-> PyNone]

Provisioned(log) ==
    log # <<>> /\ log[Len(log)].cmd \in {"create", "update"} /\ log[Len(log)].rc = 0

\* `kedro install` is started (line 251) and reaches the loop of line 131
StartRun ==
    /\ pc \in {"idle", "done", "failed"}
    /\ runs < MaxRuns
    /\ runs' = runs + 1
    /\ pc' = "loop"
    /\ i' = 1
    /\ conda_cfg' = EmptyDoc
    /\ cfg_name' = PyNone
    /\ cfg_prefix' = PyNone
    /\ name' = PyNone
    /\ prefix' = PyNone
    /\ envs' = <<>>
    /\ update' = PyFalse
    /\ prompts' = 0
    /\ script' = <<>>
    /\ cmds' = <<>>
    /\ err' = ""
    /\ filesAtStart' = files
    /\ prev' = IF Provisioned(cmds)
               THEN [ok |-> TRUE, action |-> cmds[Len(cmds)].cmd,
                     name |-> cmds[Len(cmds)].name,
                     prefix |-> cmds[Len(cmds)].prefix]
               ELSE NoPrev
    /\ reqsAtStart' = reqs_in
    /\ compile_flag' = "unset"
    /\ pips' = <<>>
    /\ UNCHANGED <<files, registry, reqs_in>>
    /\ UNCHANGED askVars

\* the error is recorded and _conda_install returns to install all the same
FailSwallowed(e) ==
    /\ pc' = "returned"
    /\ err' = e

\* the run ends by an exception or sys.exit
Fail(e) ==
    /\ pc' = "failed"
    /\ err' = e

\* lines 131-133: config_path.is_file() is false, on to the next filename
SkipFile ==
    /\ pc = "loop"
    /\ i <= NFiles
    /\ files[i].kind = "absent"
    /\ i' = i + 1
    /\ UNCHANGED <<files, registry, pc, runs, conda_cfg, cfg_name, cfg_prefix,
                   name, prefix, envs, update, prompts, script, cmds, err,
                   filesAtStart, prev>>
    /\ UNCHANGED pipVars
    /\ UNCHANGED askVars

\* line 131 exiting when the list is exhausted
LoopEndFails ==
    /\ pc = "loop"
    /\ i > NFiles
    /\ Fail("SystemExit")
    /\ UNCHANGED <<files, registry, runs, i, conda_cfg, cfg_name, cfg_prefix,
                   name, prefix, envs, update, prompts, script, cmds,
                   filesAtStart, prev>>
    /\ UNCHANGED pipVars
    /\ UNCHANGED askVars

\* line 131: the list is exhausted, _conda_install returns
LoopEnd ==
    /\ pc = "loop"
    /\ i > NFiles
    /\ pc' = "returned"
    /\ UNCHANGED <<files, registry, runs, i, conda_cfg, cfg_name, cfg_prefix,
                   name, prefix, envs, update, prompts, script, cmds, err,
                   filesAtStart, prev>>
    /\ UNCHANGED pipVars
    /\ UNCHANGED askVars

\* lines 136-140 without the test of line 137
LoadStatusUnchecked(f) ==
    CASE f.kind = "malformed" -> "YAMLError"
      [] f.kind = "list" -> "AttributeError"
      [] OTHER -> "ok"

\* lines 136-139: anyconfig.load raises on a file that is not YAML; a YAML
\* list has no .get (line 140); an empty document is refused by line 137
LoadStatus(f) ==
    CASE f.kind = "malformed" -> "YAMLError"
      [] f.kind = "list" -> "AttributeError"
      [] f.kind = "doc" /\ DOMAIN f.doc = {} -> "SystemExit"
      [] OTHER -> "ok"

\* lines 133-142: the file exists; parse it and read name and prefix
LoadSpec ==
    /\ pc = "loop"
    /\ i <= NFiles
    /\ files[i].kind # "absent"
    /\ IF LoadStatus(files[i]) # "ok"
       THEN /\ Fail(LoadStatus(files[i]))
            /\ UNCHANGED <<conda_cfg, cfg_name, cfg_prefix, name, prefix>>
       ELSE /\ conda_cfg' = files[i].doc
            /\ cfg_name' = DocGet(files[i].doc, "name")
            /\ cfg_prefix' = DocGet(files[i].doc, "prefix")
            /\ name' = DefaultedName(DocGet(files[i].doc, "name"))
            /\ prefix' = DefaultedPrefix(DocGet(files[i].doc, "prefix"))
            /\ pc' = "list"
            /\ UNCHANGED err
    /\ UNCHANGED <<files, registry, runs, i, envs, update, prompts, script,
                   cmds, filesAtStart, prev>>
    /\ UNCHANGED pipVars
    /\ UNCHANGED askVars

ListCmd(out) ==
    [cmd |-> "list", prefix |-> PyNone, name |-> PyNone, file |-> 0,
     prune |-> FALSE, rc |-> out.returncode, stdout |-> out.stdout]

\* lines 144-151 without the test of line 145
ListStatusUnchecked(out) ==
    IF RunCondaCmd(out).status # "ok" THEN RunCondaCmd(out).status
    ELSE IF out.stdout # "envs" THEN "KeyError"
    ELSE "ok"

\* lines 144-151: how the query ends: an exception of _run_conda_cmd, the
\* sys.exit(1) of line 147, the KeyError of json['envs'], or "ok"
ListStatus(out) ==
    IF RunCondaCmd(out).status # "ok" THEN RunCondaCmd(out).status
    ELSE IF RunCondaCmd(out).returncode # 0 THEN "SystemExit"
    ELSE IF out.stdout # "envs" THEN "KeyError"
    ELSE "ok"

\* lines 144-151: `conda env list`, its check, and the read of json['envs']
ListEnvs ==
    /\ pc = "list"
    /\ \E out \in ListOutcomes :
         /\ cmds' = Append(cmds, ListCmd(out))
         /\ IF ListStatus(out) # "ok"
            THEN Fail(ListStatus(out)) /\ UNCHANGED envs
            ELSE /\ envs' = registry
                 /\ pc' = "resolve"
                 /\ UNCHANGED err
    /\ UNCHANGED <<files, registry, runs, i, conda_cfg, cfg_name, cfg_prefix,
                   name, prefix, update, prompts, script, filesAtStart, prev>>
    /\ UNCHANGED pipVars
    /\ UNCHANGED askVars

\* lines 150-167: decide between update and create, and the identity
Resolve ==
    /\ pc = "resolve"
    /\ \E stdin \in Scripts :
         LET r == Resolution(conda_cfg, cfg_name, cfg_prefix, name, prefix,
                             envs, stdin)
         IN  /\ script' = stdin
             /\ prompts' = r.prompts
             /\ update' = r.update
             /\ name' = r.name
             /\ prefix' = r.prefix
             /\ IF r.status = "ok" THEN pc' = "provision" /\ UNCHANGED err
                ELSE Fail(r.status)
    /\ UNCHANGED <<files, registry, runs, i, conda_cfg, cfg_name, cfg_prefix,
                   envs, cmds, filesAtStart, prev>>
    /\ UNCHANGED pipVars
    /\ UNCHANGED askVars

\* lines 172 and 176 with --prune on both command lines
ProvisionCmdAlwaysPrune(upd, pf, nm, f, rc) ==
    [cmd |-> IF Truthy(upd) THEN "update" ELSE "create", prefix |-> pf,
     name |-> nm, file |-> f, prune |-> TRUE, rc |-> rc, stdout |-> "None"]

\* lines 172 and 176: the command line handed to call()
ProvisionCmd(upd, pf, nm, f, rc) ==
    [cmd |-> IF Truthy(upd) THEN "update" ELSE "create", prefix |-> pf,
     name |-> nm, file |-> f, prune |-> Truthy(upd), rc |-> rc,
     stdout |-> "None"]

\* Where conda may list an environment it has just created with the given
\* --prefix and --name.
CreatedAt(pf, nm) == {pf, [kind |-> "str", abs |-> pf.abs, segs |-> pf.segs \o nm.segs]}

\* call(cmd) (kedro.framework.cli.utils): runs cmd and raises click's Exit
\* when its return code is not 0
CallRaises(rc) == rc # 0

\* lines 169-177: conda env update / conda env create
Provision ==
    /\ pc = "provision"
    /\ \E rc \in {0, 1} :
         /\ cmds' = Append(cmds, ProvisionCmd(update, prefix, name, i, rc))
         /\ IF CallRaises(rc)
            THEN Fail("Exit") /\ UNCHANGED registry
            ELSE /\ pc' = "write"
                 /\ UNCHANGED err
                 /\ IF Truthy(update) THEN UNCHANGED registry
                    ELSE \E at \in CreatedAt(prefix, name) :
                            registry' = IF PyIn(at, registry) THEN registry
                                        ELSE Append(registry, at)
    /\ UNCHANGED <<files, runs, i, conda_cfg, cfg_name, cfg_prefix, name,
                   prefix, envs, update, prompts, script, filesAtStart, prev>>
    /\ UNCHANGED pipVars
    /\ UNCHANGED askVars

\* lines 181-185 dumping a mapping of name and prefix alone
PinnedFresh(cfg, nm, pf) == MkDoc(nm, pf, PyNone)

\* lines 181-184
Pinned(cfg, nm, pf) ==
    LET withName == IF Truthy(nm) THEN DocSet(cfg, "name", nm) ELSE cfg
    IN  IF Truthy(pf) THEN DocSet(withName, "prefix", pf) ELSE withName

\* lines 179-185 run whether or not call() raised (as in a finally clause)
WriteSpecAlways ==
    /\ pc = "write" \/ (pc = "failed" /\ err = "Exit" /\ files = filesAtStart)
    /\ conda_cfg' = Pinned(conda_cfg, name, prefix)
    /\ files' = [files EXCEPT ![i] = Doc(Pinned(conda_cfg, name, prefix))]
    /\ pc' = IF pc = "write" THEN "returned" ELSE pc
    /\ UNCHANGED <<registry, runs, i, cfg_name, cfg_prefix, name, prefix, envs,
                   update, prompts, script, cmds, err, filesAtStart, prev>>
    /\ UNCHANGED pipVars
    /\ UNCHANGED askVars

\* lines 179-190 without the return of line 190: on to the next filename
WriteSpecContinues ==
    /\ pc = "write"
    /\ conda_cfg' = Pinned(conda_cfg, name, prefix)
    /\ files' = [files EXCEPT ![i] = Doc(Pinned(conda_cfg, name, prefix))]
    /\ pc' = "loop"
    /\ i' = i + 1
    /\ UNCHANGED <<registry, runs, cfg_name, cfg_prefix, name, prefix, envs,
                   update, prompts, script, cmds, err, filesAtStart, prev>>
    /\ UNCHANGED pipVars
    /\ UNCHANGED askVars

\* lines 179-190: write name and prefix into the spec file and return
WriteSpec ==
    /\ pc = "write"
    /\ conda_cfg' = Pinned(conda_cfg, name, prefix)
    /\ files' = [files EXCEPT ![i] = Doc(Pinned(conda_cfg, name, prefix))]
    /\ pc' = "returned"
    /\ UNCHANGED <<registry, runs, i, cfg_name, cfg_prefix, name, prefix, envs,
                   update, prompts, script, cmds, err, filesAtStart, prev>>
    /\ UNCHANGED pipVars
    /\ UNCHANGED askVars

----------------------------------------------------------------------------
(* install after _conda_install has returned (lines 265-277) *)

\* lines 265-266 deaf to --no-build-reqs
DoCompileIgnoringNo(flag, exists) ==
    flag = "True" \/ ~exists

\* lines 265-266: do_compile, for the option and whether requirements.in
\* is a file
DoCompile(flag, exists) ==
    flag = "True" \/ (flag = "None" /\ ~exists)

PipStep(step, rc) == [step |-> step, rc |-> rc]

\* lines 265-268 and _build_reqs (lines 92-99): read the option, decide,
\* copy requirements.txt when requirements.in is missing (copyfile raises
\* when requirements.txt is missing too), run pip-compile (python_call raises
\* when it exits non-zero). install reads no input from here on.
BuildReqs ==
    /\ pc = "returned"
    /\ script' = <<>>
    /\ \E flag \in {"None", "True", "False"}, copied \in BOOLEAN, rc \in {0, 1} :
         /\ compile_flag' = flag
         /\ IF ~DoCompile(flag, reqs_in # "absent")
            THEN /\ pc' = "pip"
                 /\ UNCHANGED <<reqs_in, pips, err>>
            ELSE IF reqs_in = "absent" /\ ~copied
            THEN /\ Fail("FileNotFoundError")
                 /\ pips' = <<PipStep("copyfile", 1)>>
                 /\ UNCHANGED reqs_in
            ELSE /\ reqs_in' = IF reqs_in = "absent" THEN "copy" ELSE reqs_in
                 /\ pips' = (IF reqs_in = "absent" THEN <<PipStep("copyfile", 0)>>
                             ELSE <<>>) \o <<PipStep("pip-compile", rc)>>
                 /\ IF CallRaises(rc) THEN Fail("Exit")
                    ELSE pc' = "pip" /\ UNCHANGED err
    /\ UNCHANGED condaVars
    /\ UNCHANGED reqsAtStart
    /\ UNCHANGED askVars

\* lines 270-277: pip install -U -r requirements.txt
PipInstall ==
    /\ pc = "pip"
    /\ \E rc \in {0, 1} :
         /\ pips' = Append(pips, PipStep("pip-install", rc))
         /\ IF CallRaises(rc) THEN Fail("Exit")
            ELSE pc' = "done" /\ UNCHANGED err
    /\ UNCHANGED condaVars
    /\ UNCHANGED <<script, reqs_in, reqsAtStart, compile_flag>>
    /\ UNCHANGED askVars

Next ==
    \/ StartRun
    \/ SkipFile
    \/ LoopEnd
    \/ LoadSpec
    \/ ListEnvs
    \/ Resolve
    \/ Provision
    \/ WriteSpec
    \/ BuildReqs
    \/ PipInstall

Spec == Init /\ [][Next]_vars

----------------------------------------------------------------------------
(* State machine: one call of _ask, response by response *)

MaxChoices == 2   \* candidates offered by the call of _ask checked alone

\* what an operator may type at the prompt of the call checked alone
AskResponses == {PyStr(w) : w \in {"N", "Y", "x", "0", "1", "7", "sup2"}}

AskChoiceLists ==
    {YN} \cup {s \in UNION {[1..n -> {PathOf(e) : e \in InstalledChoices}] :
                              n \in 1..MaxChoices} :
                 \A j, k \in 1..Len(s) : j # k => s[j] # s[k]}

AskInit ==
    /\ files = <<Absent, Absent>>
    /\ registry = <<>>
    /\ pc = "idle"
    /\ runs = 0
    /\ i = 1
    /\ conda_cfg = EmptyDoc
    /\ cfg_name = PyNone
    /\ cfg_prefix = PyNone
    /\ name = PyNone
    /\ prefix = PyNone
    /\ envs = <<>>
    /\ update = PyFalse
    /\ prompts = 0
    /\ script = <<>>
    /\ cmds = <<>>
    /\ err = ""
    /\ filesAtStart = files
    /\ prev = NoPrev
    /\ reqs_in = "absent"
    /\ reqsAtStart = reqs_in
    /\ compile_flag = "unset"
    /\ pips = <<>>
    /\ ask_pc = "input"
    /\ ask_choices \in AskChoiceLists
    /\ ask_indexes \in BOOLEAN
    /\ ask_choice = PyNone
    /\ ask_reads = 0
    /\ ask_ret = [status |-> "none", index |-> 0, choice |-> PyNone]

\* lines 117-126: input(prompt) returns a response; test it, return or loop
AskRead ==
    /\ ask_pc = "input"
    /\ ask_reads < MaxReads
    /\ \E r \in AskResponses :
         LET c == AskCheck(r, ask_choices, ask_indexes)
         IN  /\ ask_choice' = r
             /\ ask_reads' = ask_reads + 1
             /\ ask_pc' = CASE c.status = "again" -> "input"
                            [] c.status = "return" -> "returned"
                            [] OTHER -> "raised"
             /\ ask_ret' = IF c.status = "again" THEN ask_ret ELSE c
    /\ UNCHANGED <<ask_choices, ask_indexes>>
    /\ UNCHANGED installVars

\* lines 117, 121, 125: stdin is closed, input(prompt) raises EOFError
AskEOF ==
    /\ ask_pc = "input"
    /\ ask_reads < MaxReads
    /\ ask_reads' = ask_reads + 1
    /\ ask_pc' = "raised"
    /\ ask_ret' = [status |-> "EOFError", index |-> 0, choice |-> PyNone]
    /\ UNCHANGED <<ask_choices, ask_indexes, ask_choice>>
    /\ UNCHANGED installVars

AskNext == AskRead \/ AskEOF

AskSpec == AskInit /\ [][AskNext]_vars

----------------------------------------------------------------------------
(* Vocabulary of the properties *)

LastCmd == cmds[Len(cmds)]

\* a conda env create / conda env update has been started in this run
ProvisionIssued == cmds # <<>> /\ LastCmd.cmd \in {"create", "update"}

\* the final path segment of a listed environment
EnvName(e) == OsPathSplit(e)[2]

\* the listed environments named n, in listing order
RECURSIVE NamedEnvs(_, _)
NamedEnvs(listed, n) ==
    IF listed = <<>> THEN <<>>
    ELSE (IF EnvName(Head(listed)) = n THEN <<Head(listed)>> ELSE <<>>)
            \o NamedEnvs(Tail(listed), n)

\* the text prefix/name
Composite(p, n) == [kind |-> "str", abs |-> p.abs, segs |-> p.segs \o n.segs]

\* the file's prefix is the path of a listed environment
PrefixListed == Truthy(cfg_prefix) /\ PyIn(cfg_prefix, envs)

\* the exact-match rule: the prefix alone, or prefix/name, is a listed path
ExactRule ==
    /\ Truthy(cfg_prefix)
    /\ \/ PyIn(cfg_prefix, envs)
       \/ Truthy(cfg_name) /\ PyIn(Composite(cfg_prefix, cfg_name), envs)

\* the file gives a name and no prefix
NameOnly == Truthy(cfg_name) /\ ~Truthy(cfg_prefix)

\* the first response of s that belongs to the words ws, or PyNone
RECURSIVE FirstOf(_, _)
FirstOf(s, ws) ==
    IF s = <<>> THEN PyNone
    ELSE IF Head(s) \in {PyStr(w) : w \in ws} THEN Head(s)
    ELSE FirstOf(Tail(s), ws)

\* what follows that response in s
RECURSIVE AfterFirstOf(_, _)
AfterFirstOf(s, ws) ==
    IF s = <<>> THEN <<>>
    ELSE IF Head(s) \in {PyStr(w) : w \in ws} THEN Tail(s)
    ELSE AfterFirstOf(Tail(s), ws)

\* the operator's answer to the reuse question is N / is Y
Declines == FirstOf(script, {"N", "Y"}) = PyStr("N")
Accepts == FirstOf(script, {"N", "Y"}) = PyStr("Y")

\* the operator's answer to the question of which candidate, among k
PickedIndex(k) ==
    LET r == FirstOf(AfterFirstOf(script, {"N", "Y"}),
                     {w \in DecimalWords : IntOf(PyStr(w)) < k})
    IN  IF r = PyNone THEN -1 ELSE IntOf(r)

----------------------------------------------------------------------------
(* Properties *)

\* C1: when the prefix of the spec file is the path of a listed environment,
\* the provisioning command is `conda env update ... --prune` with that
\* prefix, whatever the file says about the name.
C1_ExactMatchUpdates ==
    (ProvisionIssued /\ PrefixListed)
        => /\ LastCmd.cmd = "update"
           /\ LastCmd.prune
           /\ LastCmd.prefix = cfg_prefix

\* C2: a run that follows a successful run (file rewritten, nothing else
\* changed) provisions by update, with the name and prefix of the first run,
\* and without a prompt.
C2_SecondRunUpdatesSame ==
    (prev.ok /\ ProvisionIssued)
        => /\ LastCmd.cmd = "update"
           /\ LastCmd.name = prev.name
           /\ LastCmd.prefix = prev.prefix
           /\ prompts = 0

\* C3: the spec file differs from what it was when the run started only
\* after create/update has returned 0; in a run whose create/update returned
\* non-zero the file is what it was when the run started.
C3_WriteOnlyAfterSuccess ==
    /\ files # filesAtStart => Provisioned(cmds)
    /\ (ProvisionIssued /\ LastCmd.rc # 0) => files = filesAtStart

\* C3 witness: create/update failed in a run whose write would have changed
\* the file, and the file is unchanged.
C3_Witness ==
    /\ pc = "failed"
    /\ ProvisionIssued
    /\ LastCmd.rc # 0
    /\ Doc(Pinned(conda_cfg, name, prefix)) # files[i]
    /\ files = filesAtStart

\* C4: name without prefix, exactly one listed environment of that name, no
\* exact match: the operator is asked, and on Y the command is update with
\* the parent directory and final segment of that environment's path.
C4_SingleMatchAsksAndReuses ==
    (ProvisionIssued /\ NameOnly /\ Len(NamedEnvs(envs, cfg_name)) = 1)
        => /\ prompts >= 1
           /\ Accepts =>
                /\ LastCmd.cmd = "update"
                /\ LastCmd.prefix = OsPathSplit(NamedEnvs(envs, cfg_name)[1])[1]
                /\ LastCmd.name = cfg_name

C6_MultipleMatchesAskIndex ==
    (ProvisionIssued /\ NameOnly /\ Len(NamedEnvs(envs, cfg_name)) > 1)
        => /\ prompts >= 1
           /\ Declines => LastCmd.cmd = "create"
           /\ (Accepts /\ PickedIndex(Len(NamedEnvs(envs, cfg_name))) >= 0) =>
                LET k == PickedIndex(Len(NamedEnvs(envs, cfg_name)))
                    chosen == NamedEnvs(envs, cfg_name)[k + 1]
                IN  /\ LastCmd.cmd = "update"
                    /\ LastCmd.prefix = OsPathSplit(chosen)[1]
                    /\ LastCmd.name = OsPathSplit(chosen)[2]

\* no listed environment matches the file by prefix, by prefix/name or by name
NoMatch == ~ExactRule /\ NamedEnvs(envs, cfg_name) = <<>>

\* C7: when no listed environment matches the file, no prompt is issued and
\* the command is create, with the name of the file or else the project name,
\* and the prefix of the file or else the default prefix.
C7_NoMatchCreatesSilently ==
    (pc \in {"provision", "write"} \/ ProvisionIssued) /\ NoMatch
        => /\ prompts = 0
           /\ ~Truthy(update)
           /\ name = (IF Truthy(cfg_name) THEN cfg_name ELSE PROJ_NAME)
           /\ prefix = (IF Truthy(cfg_prefix) THEN cfg_prefix
                        ELSE DEFAULT_CONDA_PREFIX)
           /\ ProvisionIssued =>
                /\ LastCmd.cmd = "create"
                /\ LastCmd.name = name
                /\ LastCmd.prefix = prefix

\* C7 witness: a file with neither name nor prefix, nothing installed, and
\* the environment created under the defaults.
C7_Witness ==
    /\ pc = "returned"
    /\ ProvisionIssued
    /\ NoMatch
    /\ cfg_name = PyNone
    /\ cfg_prefix = PyNone
    /\ envs = <<>>
    /\ LastCmd.cmd = "create"
    /\ LastCmd.name = PROJ_NAME
    /\ LastCmd.prefix = DEFAULT_CONDA_PREFIX

\* `conda env list` was run and exited non-zero or printed no parseable JSON
ListFailed ==
    /\ cmds # <<>>
    /\ cmds[1].cmd = "list"
    /\ cmds[1].rc # 0 \/ cmds[1].stdout \in {"None", "text"}

\* C8: after a failed `conda env list` the run has failed, with no prompt,
\* no create, no update, and the spec files as they were.
C8_RegistryFailureWithholds ==
    ListFailed
        => /\ pc = "failed"
           /\ prompts = 0
           /\ \A k \in 1..Len(cmds) : cmds[k].cmd \notin {"create", "update"}
           /\ files = filesAtStart

\* C8 witness: the query exited non-zero with a listing in which the file's
\* name is installed, and the run has failed.
C8_Witness ==
    /\ ListFailed
    /\ cmds[1].rc # 0
    /\ cmds[1].stdout = "envs"
    /\ pc = "failed"
    /\ registry # <<>>
    /\ Truthy(cfg_name)

\* the file is not YAML, or is an empty document
BadSpec(f) == f.kind = "malformed" \/ (f.kind = "doc" /\ DOMAIN f.doc = {})

\* C9: a run that has come to a malformed or empty spec file starts no conda
\* subprocess and issues no prompt: it is about to load the file, or has
\* failed.
C9_BadSpecFailsFast ==
    (pc # "idle" /\ i <= NFiles /\ BadSpec(filesAtStart[i]))
        => /\ cmds = <<>>
           /\ prompts = 0
           /\ pc \in {"loop", "failed"}

\* C9 witness: the run has failed on an empty document.
C9_Witness ==
    /\ pc = "failed"
    /\ i <= NFiles
    /\ filesAtStart[i].kind = "doc"
    /\ BadSpec(filesAtStart[i])
    /\ cmds = <<>>

\* a response that answers the question: in index mode a decimal number in
\* 0..len(choices)-1, otherwise a member of choices
ValidResponse(r, choices, indexes) ==
    IF indexes
    THEN /\ IsDigit(r)
         /\ r.segs[1] \in DecimalWords
         /\ IntOf(r) < Len(choices)
    ELSE PyIn(r, choices)

\* C10: every response read by _ask that is not valid leads to another
\* prompt, every valid one makes _ask return it, and the returned pair
\* (index, choice) satisfies choices[index] == choice.
C10_ChooserValidity ==
    [][(ask_pc = "input" /\ ask_reads' # ask_reads /\ ask_ret'.status # "EOFError")
          => IF ValidResponse(ask_choice', ask_choices, ask_indexes)
             THEN /\ ask_pc' = "returned"
                  /\ ask_ret'.choice = ask_choices[ask_ret'.index + 1]
                  /\ IF ask_indexes THEN ask_ret'.index = IntOf(ask_choice')
                     ELSE ask_ret'.choice = ask_choice'
             ELSE ask_pc' = "input"]_vars

\* the create/update commands started in this run
ProvisionCmds == SelectSeq(cmds, LAMBDA c : c.cmd \in {"create", "update"})

\* C11: every create/update command carries a non-empty --name, a non-empty
\* --prefix and --file naming the spec file being processed, and carries
\* --prune exactly when it is update.
C11_ProvisionCallShape ==
    \A k \in 1..Len(ProvisionCmds) :
        LET c == ProvisionCmds[k]
        IN  /\ c.name.kind = "str" /\ Truthy(c.name)
            /\ c.prefix.kind = "str" /\ Truthy(c.prefix)
            /\ c.file = i
            /\ filesAtStart[c.file].kind = "doc"
            /\ c.prune <=> (c.cmd = "update")

\* C11 witness: a create for a file that gives neither name nor prefix.
C11_Witness ==
    /\ ProvisionIssued
    /\ cfg_name = PyNone
    /\ cfg_prefix = PyNone
    /\ LastCmd.cmd = "create"
    /\ ~LastCmd.prune

\* C12: filenames before the one being processed do not exist; no other file
\* than the one being processed differs from what it was when the run
\* started; the run makes at most one registry query and at most one
\* create/update, for that file.
C12_FirstExistingWins ==
    /\ \A j \in 1..NFiles :
         /\ j < i => filesAtStart[j].kind = "absent"
         /\ j # i => files[j] = filesAtStart[j]
    /\ Len(SelectSeq(cmds, LAMBDA c : c.cmd = "list")) <= 1
    /\ Len(ProvisionCmds) <= 1
    /\ \A k \in 1..Len(ProvisionCmds) : ProvisionCmds[k].file = i

\* C12 witness: the first file was provisioned and rewritten, the second
\* exists and is what it was.
C12_Witness ==
    /\ pc = "returned"
    /\ i = 1
    /\ Provisioned(cmds)
    /\ files[1] # filesAtStart[1]
    /\ files[2].kind = "doc"
    /\ files[2] = filesAtStart[2]

\* the file gives both a name and a prefix, other than the project defaults
DeclaresBothOtherThanDefaults ==
    /\ Truthy(cfg_name) /\ Truthy(cfg_prefix)
    /\ cfg_name # PROJ_NAME \/ cfg_prefix # DEFAULT_CONDA_PREFIX

\* C13 (as claimed): a file that gives both name and prefix, other than the
\* project defaults, makes the run fail before any conda command.
C13_ConflictRejected ==
    DeclaresBothOtherThanDefaults => (pc = "failed" /\ cmds = <<>>)

\* C13 (amended): a file that gives both name and prefix is loaded, and its
\* name and prefix, not the project defaults, are the resolved identity and
\* the identity passed to create/update.
C13_FileIdentityPreferred ==
    DeclaresBothOtherThanDefaults
        => /\ name = cfg_name
           /\ prefix = cfg_prefix
           /\ err \notin {"YAMLError", "AttributeError"}
           /\ ProvisionIssued =>
                (LastCmd.name = cfg_name /\ LastCmd.prefix = cfg_prefix)

\* C13 witness: such a file has been provisioned under its own identity.
C13_Witness ==
    /\ DeclaresBothOtherThanDefaults
    /\ Provisioned(cmds)
    /\ LastCmd.name = cfg_name
    /\ LastCmd.prefix = cfg_prefix
    /\ LastCmd.prefix # DEFAULT_CONDA_PREFIX

\* C14: after a successful run the rewritten file has the keys it had plus
\* name and prefix, every other key with the value it had, and name and
\* prefix with the values passed as --name and --prefix.
C14_PersistenceFrame ==
    (Provisioned(cmds) /\ pc # "write")
        => /\ files[i].kind = "doc"
           /\ DOMAIN files[i].doc = DOMAIN filesAtStart[i].doc \cup {"name", "prefix"}
           /\ \A k \in DOMAIN filesAtStart[i].doc \ {"name", "prefix"} :
                files[i].doc[k] = filesAtStart[i].doc[k]
           /\ files[i].doc["name"] = LastCmd.name
           /\ files[i].doc["prefix"] = LastCmd.prefix

\* C14 witness: a file with dependencies and no name has been rewritten.
C14_Witness ==
    /\ pc = "returned"
    /\ Provisioned(cmds)
    /\ "dependencies" \in DOMAIN filesAtStart[i].doc
    /\ "name" \notin DOMAIN filesAtStart[i].doc
    /\ files[i] # filesAtStart[i]

\* C15: update is started only when the exact-match rule holds or the
\* operator was asked and answered Y; a file that gives a prefix without an
\* exact match leads to create, without a prompt, whatever its name.
C15_UpdateNeedsMatchOrConsent ==
    /\ (ProvisionIssued /\ LastCmd.cmd = "update")
          => (ExactRule \/ (prompts >= 1 /\ Accepts))
    /\ (Truthy(cfg_prefix) /\ ~ExactRule /\ pc \in {"provision", "write", "returned"})
          => (prompts = 0 /\ ~Truthy(update))
    /\ (Truthy(cfg_prefix) /\ ~ExactRule /\ ProvisionIssued)
          => (prompts = 0 /\ LastCmd.cmd = "create")

\* C15 witness: prefix given, no exact match, the name is that of a listed
\* environment, and the environment was created without a prompt.
C15_Witness ==
    /\ Truthy(cfg_prefix)
    /\ ~ExactRule
    /\ NamedEnvs(envs, cfg_name) # <<>>
    /\ ProvisionIssued
    /\ LastCmd.cmd = "create"
    /\ prompts = 0

\* the path a create/update command designates: its --prefix, or prefix/name
Designates(c, e) == c.prefix = e \/ Composite(c.prefix, c.name) = e

\* C17: when the exact-match rule holds, the command is update, --name is the
\* final segment of the matched environment's path and --prefix designates
\* that environment.
C17_ExactMatchIdentity ==
    (ProvisionIssued /\ ExactRule)
        => /\ LastCmd.cmd = "update"
           /\ \E k \in 1..Len(envs) :
                /\ envs[k] = cfg_prefix
                     \/ (Truthy(cfg_name) /\ envs[k] = Composite(cfg_prefix, cfg_name))
                /\ LastCmd.name = EnvName(envs[k])
                /\ Designates(LastCmd, envs[k])


\* the processing of the spec file at position i has ended in a fatal error:
\* the file is malformed or empty and has been loaded, the registry query
\* failed, or create/update exited non-zero
CondaFatal ==
    \/ pc \notin {"idle", "loop"} /\ i <= NFiles /\ BadSpec(filesAtStart[i])
    \/ ListFailed
    \/ ProvisionIssued /\ LastCmd.rc # 0

\* C16: after a fatal error on the first existing spec file the run has
\* failed; no command concerns a later filename and no later file is
\* touched; install has not read its compile option and has run neither the
\* copy, nor pip-compile, nor pip install.
C16_FatalAbortsDownstream ==
    CondaFatal
        => /\ pc = "failed"
           /\ i <= NFiles
           /\ \A j \in 1..(i - 1) : filesAtStart[j].kind = "absent"
           /\ filesAtStart[i].kind # "absent"
           /\ \A k \in 1..Len(ProvisionCmds) : ProvisionCmds[k].file = i
           /\ \A j \in (i + 1)..NFiles : files[j] = filesAtStart[j]
           /\ compile_flag = "unset"
           /\ pips = <<>>
           /\ reqs_in = reqsAtStart

\* C16 witness: create/update exited non-zero on the first filename while the
\* second filename exists too, and the run has failed.
C16_Witness ==
    /\ pc = "failed"
    /\ ProvisionIssued
    /\ LastCmd.rc # 0
    /\ i = 1
    /\ filesAtStart[2].kind = "doc"
    /\ pips = <<>>


\* the pip-compile steps and the copies of requirements.txt of this run
CompileSteps == SelectSeq(pips, LAMBDA p : p.step = "pip-compile")
CopySteps == SelectSeq(pips, LAMBDA p : p.step = "copyfile")

\* --build-reqs was given, or no flag was given and requirements.in did not
\* exist
CompileRequested ==
    compile_flag = "True" \/ (compile_flag = "None" /\ reqsAtStart = "absent")

\* the copy of requirements.txt raised: requirements.txt is missing as well
CopyRaised == CopySteps # <<>> /\ CopySteps[1].rc # 0

\* C18 as stated: once install has read its option, pip-compile has run
\* exactly when compilation was requested.
C18_CompileIffRequested ==
    compile_flag # "unset" => (CompileSteps # <<>> <=> CompileRequested)

\* C18: pip-compile has run exactly when compilation was requested and the
\* copy, if one was needed, did not raise; with --no-build-reqs neither the
\* copy nor pip-compile runs; when requirements.in was missing the one copy
\* comes first and pip-compile second; a requirements.in that existed
\* is never copied over and keeps its content.
C18_CompilePrecedence ==
    /\ compile_flag = "unset" => pips = <<>>
    /\ compile_flag # "unset"
        => (CompileSteps # <<>> <=> (CompileRequested /\ ~CopyRaised))
    /\ compile_flag = "False" => CompileSteps = <<>> /\ CopySteps = <<>>
    /\ CopySteps # <<>> => CompileRequested /\ reqsAtStart = "absent"
    /\ CompileSteps # <<>>
        => /\ Len(CompileSteps) = 1
           /\ reqs_in # "absent"
           /\ reqsAtStart = "absent"
                => /\ pips[1] = PipStep("copyfile", 0)
                   /\ pips[2].step = "pip-compile"
                   /\ reqs_in = "copy"
    /\ reqsAtStart # "absent" => reqs_in = reqsAtStart /\ CopySteps = <<>>

\* C18 witness: no flag, no requirements.in: the copy was made, pip-compile
\* succeeded and pip install has run.
C18_Witness ==
    /\ pc = "done"
    /\ compile_flag = "None"
    /\ reqsAtStart = "absent"
    /\ reqs_in = "copy"
    /\ pips = <<PipStep("copyfile", 0), PipStep("pip-compile", 0),
                PipStep("pip-install", 0)>>


\* none of the filenames was a file when the run started
NoSpecFile == \A j \in 1..NFiles : filesAtStart[j].kind = "absent"

\* C19: a run that found no spec file has run no conda command, issued no
\* prompt and written no file; it is in the loop, has returned from
\* _conda_install, or is in the pip steps, and it can have failed in a pip
\* step only.
C19_NoSpecNoEffect ==
    (pc # "idle" /\ NoSpecFile)
        => /\ cmds = <<>>
           /\ prompts = 0
           /\ files = filesAtStart
           /\ pc \in {"loop", "returned", "pip", "done", "failed"}
           /\ pc = "failed" => pips # <<>> /\ pips[Len(pips)].rc # 0
           /\ pc = "done" => pips[Len(pips)] = PipStep("pip-install", 0)

\* C19 witness: such a run has gone through pip install.
C19_Witness ==
    /\ NoSpecFile
    /\ pc = "done"
    /\ cmds = <<>>
    /\ files = filesAtStart
    /\ pips # <<>>
    /\ pips[Len(pips)] = PipStep("pip-install", 0)

============================================================================
